---- MODULE Spec2Model ----
(***************************************************************************)
(* Model of the AD compliance engine (ad_compliance_engine.py) and of the  *)
(* constraint primitives it uses (ad_compliance_schema.py).                *)
(*                                                                         *)
(* Python strings that the code inspects character by character            *)
(* (modification texts, constraint ids, aliases, model designators, the    *)
(* fleet key) are sequences of one-character strings.  Optional[T] is a    *)
(* sequence of length 0 (None) or 1 (the value).                           *)
(***************************************************************************)
EXTENDS Integers, Sequences, FiniteSets, TLC

VARIABLES ads, op, args, ret, first

vars == <<ads, op, args, ret, first>>

(***************************************************************************)
(* Bounds                                                                  *)
(***************************************************************************)
MaxMsn == 3
MaxAds == 2
MaxFleet == 2

None == <<>>
Some(v) == <<v>>

(***************************************************************************)
(* str.lower(), str.strip(), the `in` operator on strings, str(int)        *)
(***************************************************************************)
Whitespace == {" "}

LowerChar(c) ==
    CASE c = "M" -> "m"
      [] c = "S" -> "s"
      [] c = "A" -> "a"
      [] c = "B" -> "b"
      [] OTHER -> c

lower(s) == [i \in 1..Len(s) |-> LowerChar(s[i])]

RECURSIVE lstrip(_)
lstrip(s) ==
    IF s # <<>> /\ Head(s) \in Whitespace THEN lstrip(Tail(s)) ELSE s

RECURSIVE rstrip(_)
rstrip(s) ==
    IF s # <<>> /\ s[Len(s)] \in Whitespace
    THEN rstrip(SubSeq(s, 1, Len(s) - 1))
    ELSE s

strip(s) == rstrip(lstrip(s))

\* Python's `sub in s` for strings: sub occurs as a contiguous run of s
contains(sub, s) ==
    \E i \in 0..(Len(s) - Len(sub)) : SubSeq(s, i + 1, i + Len(sub)) = sub

Digit(d) ==
    CASE d = 0 -> "0" [] d = 1 -> "1" [] d = 2 -> "2" [] d = 3 -> "3"
      [] d = 4 -> "4" [] d = 5 -> "5" [] d = 6 -> "6" [] d = 7 -> "7"
      [] d = 8 -> "8" [] d = 9 -> "9"

RECURSIVE NatToStr(_)
NatToStr(n) ==
    IF n < 10 THEN <<Digit(n)>> ELSE NatToStr(n \div 10) \o <<Digit(n % 10)>>

\* the text an f-string puts for an int
IntToStr(n) == IF n < 0 THEN <<"-">> \o NatToStr(0 - n) ELSE NatToStr(n)

(***************************************************************************)
(* ad_compliance_schema.py                                                 *)
(***************************************************************************)
MSNConstraintType == {"range", "list", "all"}

\* faulty variant: the lower bound of a range is exclusive
MSNConstraint_matches_exclusive(c, msn) ==
    IF c.type = "all" THEN TRUE
    ELSE IF c.type = "range" THEN
        IF c.min_msn # None /\ msn <= c.min_msn[1] THEN FALSE
        ELSE IF c.max_msn # None /\ msn > c.max_msn[1] THEN FALSE
        ELSE TRUE
    ELSE IF c.type = "list" THEN
        LET lst == IF c.msn_list = None THEN <<>> ELSE c.msn_list[1]
        IN  \E i \in 1..Len(lst) : lst[i] = msn
    ELSE FALSE

MSNConstraint_matches(c, msn) ==
    IF c.type = "all" THEN TRUE
    ELSE IF c.type = "range" THEN
        IF c.min_msn # None /\ msn < c.min_msn[1] THEN FALSE
        ELSE IF c.max_msn # None /\ msn > c.max_msn[1] THEN FALSE
        ELSE TRUE
    ELSE IF c.type = "list" THEN
        LET lst == IF c.msn_list = None THEN <<>> ELSE c.msn_list[1]
        IN  \E i \in 1..Len(lst) : lst[i] = msn
    ELSE FALSE

ModificationConstraint_matches(c, modification) ==
    LET mod_lower == strip(lower(modification))
    IN  IF contains(lower(c.mod_id), mod_lower) THEN TRUE
        ELSE \E i \in 1..Len(c.aliases) : contains(lower(c.aliases[i]), mod_lower)

(***************************************************************************)
(* ad_compliance_engine.py: the four checks                                *)
(* A check returns [ok |-> bool, reason |-> entry]; an entry of the reason *)
(* trail is the literal text of the message and the values it cites.       *)
(***************************************************************************)
Entry(label, msg, cite) == [label |-> label, msg |-> msg, cite |-> cite]

\* faulty variant: an empty models list is taken to mean every model
check_aircraft_model_empty_is_all(aircraft, ad) ==
    LET models == ad.applicability_rules.aircraft_models
    IN  IF models # <<>> /\ ~(\E i \in 1..Len(models) : models[i] = aircraft.aircraft_model)
        THEN [ok |-> FALSE,
              reason |-> Entry("Model check", "is not in the affected models list",
                               <<aircraft.aircraft_model>>)]
        ELSE [ok |-> TRUE,
              reason |-> Entry("Model check", "is in the affected models list",
                               <<aircraft.aircraft_model>>)]

check_aircraft_model(aircraft, ad) ==
    LET models == ad.applicability_rules.aircraft_models
    IN  IF ~(\E i \in 1..Len(models) : models[i] = aircraft.aircraft_model)
        THEN [ok |-> FALSE,
              reason |-> Entry("Model check", "is not in the affected models list",
                               <<aircraft.aircraft_model>>)]
        ELSE [ok |-> TRUE,
              reason |-> Entry("Model check", "is in the affected models list",
                               <<aircraft.aircraft_model>>)]

check_msn_constraints(aircraft, ad) ==
    LET mc == ad.applicability_rules.msn_constraints
    IN  IF mc = None
        THEN [ok |-> TRUE,
              reason |-> Entry("MSN check", "No MSN constraints specified", <<>>)]
        ELSE IF MSNConstraint_matches(mc[1], aircraft.msn)
        THEN [ok |-> TRUE,
              reason |-> Entry("MSN check", "meets the constraints",
                               <<IntToStr(aircraft.msn)>>)]
        ELSE [ok |-> FALSE,
              reason |-> Entry("MSN check", "does not meet the constraints",
                               <<IntToStr(aircraft.msn)>>)]

\* the pairs <<i, j>> of the nested loops for which cons[i] matches mods[j]
Hits(cons, mods) ==
    {p \in (1..Len(cons)) \X (1..Len(mods)) :
        ModificationConstraint_matches(cons[p[1]], mods[p[2]])}

\* the pair the nested loops reach first
FirstHit(cons, mods) ==
    CHOOSE p \in Hits(cons, mods) :
        \A q \in Hits(cons, mods) :
            p[1] < q[1] \/ (p[1] = q[1] /\ p[2] <= q[2])

\* faulty variant: only the first excluded constraint is tried
check_excluded_first_only(aircraft, ad) ==
    LET excl == ad.applicability_rules.excluded_if_modifications
        mods == aircraft.modifications
        hits == {p \in Hits(excl, mods) : p[1] = 1}
    IN  IF hits # {}
        THEN LET p == CHOOSE h \in hits : \A q \in hits : h[2] <= q[2]
             IN  [ok |-> TRUE,
                  reason |-> Entry("Excluded mods check",
                                   "Aircraft has excluded modification",
                                   <<excl[p[1]].mod_id, mods[p[2]]>>)]
        ELSE IF excl # <<>>
        THEN [ok |-> FALSE,
              reason |-> Entry("Excluded mods check",
                               "Aircraft does not have any excluded modifications", <<>>)]
        ELSE [ok |-> FALSE,
              reason |-> Entry("Excluded mods check",
                               "No excluded modifications specified", <<>>)]

check_excluded_modifications(aircraft, ad) ==
    LET excl == ad.applicability_rules.excluded_if_modifications
        mods == aircraft.modifications
    IN  IF Hits(excl, mods) # {}
        THEN LET p == FirstHit(excl, mods)
             IN  [ok |-> TRUE,
                  reason |-> Entry("Excluded mods check",
                                   "Aircraft has excluded modification",
                                   <<excl[p[1]].mod_id, mods[p[2]]>>)]
        ELSE IF excl # <<>>
        THEN [ok |-> FALSE,
              reason |-> Entry("Excluded mods check",
                               "Aircraft does not have any excluded modifications", <<>>)]
        ELSE [ok |-> FALSE,
              reason |-> Entry("Excluded mods check",
                               "No excluded modifications specified", <<>>)]

\* faulty variant: every required constraint must match, not just one
check_required_all(aircraft, ad) ==
    LET req == ad.applicability_rules.required_modifications
        mods == aircraft.modifications
    IN  IF req = <<>>
        THEN [ok |-> TRUE,
              reason |-> Entry("Required mods check",
                               "No required modifications specified", <<>>)]
        ELSE IF \A i \in 1..Len(req) : \E p \in Hits(req, mods) : p[1] = i
        THEN [ok |-> TRUE,
              reason |-> Entry("Required mods check",
                               "Aircraft has required modification",
                               <<req[1].mod_id>>)]
        ELSE [ok |-> FALSE,
              reason |-> Entry("Required mods check",
                               "Aircraft does not have any of the required modifications",
                               <<>>)]

check_required_modifications(aircraft, ad) ==
    LET req == ad.applicability_rules.required_modifications
        mods == aircraft.modifications
    IN  IF req = <<>>
        THEN [ok |-> TRUE,
              reason |-> Entry("Required mods check",
                               "No required modifications specified", <<>>)]
        ELSE IF Hits(req, mods) # {}
        THEN [ok |-> TRUE,
              reason |-> Entry("Required mods check",
                               "Aircraft has required modification",
                               <<req[FirstHit(req, mods)[1]].mod_id>>)]
        ELSE [ok |-> FALSE,
              reason |-> Entry("Required mods check",
                               "Aircraft does not have any of the required modifications",
                               <<>>)]

\* faulty variant: every aircraft in scope is flagged as affected
ComplianceResult_in_scope(ad, aircraft, is_affected, status, reasons) ==
    [ad_id |-> ad.ad_id,
     aircraft_model |-> aircraft.aircraft_model,
     msn |-> aircraft.msn,
     is_affected |-> status # "not applicable",
     status |-> status,
     reason |-> reasons]

ComplianceResult(ad, aircraft, is_affected, status, reasons) ==
    [ad_id |-> ad.ad_id,
     aircraft_model |-> aircraft.aircraft_model,
     msn |-> aircraft.msn,
     is_affected |-> is_affected,
     status |-> status,
     reason |-> reasons]

\* faulty variant: the entry of the exclusion check is appended after the
\* early return, so an excluded aircraft gets a trail without it
evaluate_append_late(aircraft, ad) ==
    LET m == check_aircraft_model(aircraft, ad)
        r1 == <<m.reason>>
    IN  IF ~m.ok
        THEN ComplianceResult(ad, aircraft, FALSE, "not applicable", r1)
        ELSE
    LET s == check_msn_constraints(aircraft, ad)
        r2 == Append(r1, s.reason)
    IN  IF ~s.ok
        THEN ComplianceResult(ad, aircraft, FALSE, "not applicable", r2)
        ELSE
    LET e == check_excluded_modifications(aircraft, ad)
        r3 == Append(r2, e.reason)
    IN  IF e.ok
        THEN ComplianceResult(ad, aircraft, FALSE, "no", r2)
        ELSE
    LET q == check_required_modifications(aircraft, ad)
        r4 == Append(r3, q.reason)
    IN  IF ~q.ok
        THEN ComplianceResult(ad, aircraft, FALSE, "no", r4)
        ELSE ComplianceResult(ad, aircraft, TRUE, "yes", r4)

evaluate(aircraft, ad) ==
    LET m == check_aircraft_model(aircraft, ad)
        r1 == <<m.reason>>
    IN  IF ~m.ok
        THEN ComplianceResult(ad, aircraft, FALSE, "not applicable", r1)
        ELSE
    LET s == check_msn_constraints(aircraft, ad)
        r2 == Append(r1, s.reason)
    IN  IF ~s.ok
        THEN ComplianceResult(ad, aircraft, FALSE, "not applicable", r2)
        ELSE
    LET e == check_excluded_modifications(aircraft, ad)
        r3 == Append(r2, e.reason)
    IN  IF e.ok
        THEN ComplianceResult(ad, aircraft, FALSE, "no", r3)
        ELSE
    LET q == check_required_modifications(aircraft, ad)
        r4 == Append(r3, q.reason)
    IN  IF ~q.ok
        THEN ComplianceResult(ad, aircraft, FALSE, "no", r4)
        ELSE ComplianceResult(ad, aircraft, TRUE, "yes", r4)

(***************************************************************************)
(* ad_compliance_engine.py: evaluate_all, evaluate_fleet                   *)
(***************************************************************************)
\* faulty variant: each result is put at the front of the list
RECURSIVE evaluate_all_loop_prepend(_, _, _)
evaluate_all_loop_prepend(results, aircraft, i) ==
    IF i > Len(ads) THEN results
    ELSE evaluate_all_loop_prepend(<<evaluate(aircraft, ads[i])>> \o results,
                                   aircraft, i + 1)

RECURSIVE evaluate_all_loop(_, _, _)
evaluate_all_loop(results, aircraft, i) ==
    IF i > Len(ads) THEN results
    ELSE evaluate_all_loop(Append(results, evaluate(aircraft, ads[i])), aircraft, i + 1)

evaluate_all(aircraft) == evaluate_all_loop(<<>>, aircraft, 1)

\* f"{aircraft.aircraft_model}-{aircraft.msn}"
aircraft_id(aircraft) == aircraft.aircraft_model \o <<"-">> \o IntToStr(aircraft.msn)

EmptyDict == [k \in {} |-> <<>>]

\* faulty variant: a key that is already there keeps its value (setdefault)
DictSet_keep(d, key, value) ==
    [k \in (DOMAIN d) \cup {key} |-> IF k \in DOMAIN d THEN d[k] ELSE value]

\* fleet_results[aircraft_id] = value
DictSet(d, key, value) ==
    [k \in (DOMAIN d) \cup {key} |-> IF k = key THEN value ELSE d[k]]

RECURSIVE evaluate_fleet_loop(_, _, _)
evaluate_fleet_loop(fleet_results, fleet, i) ==
    IF i > Len(fleet) THEN fleet_results
    ELSE evaluate_fleet_loop(
             DictSet(fleet_results, aircraft_id(fleet[i]), evaluate_all(fleet[i])),
             fleet, i + 1)

evaluate_fleet(fleet) == evaluate_fleet_loop(EmptyDict, fleet, 1)

(***************************************************************************)
(* ad_compliance_engine.py: load_rules                                     *)
(* A raw record is the dict json.load gives; a key that is missing is None.*)
(***************************************************************************)
Fail(error) == [ok |-> FALSE, error |-> error, value |-> None]
Ok(v) == [ok |-> TRUE, error |-> "", value |-> Some(v)]

\* ModificationConstraint(**mod): mod_id is required, aliases defaults to []
ParseModification(mod) ==
    IF mod.mod_id = None THEN Fail("ValidationError")
    ELSE Ok([mod_id |-> mod.mod_id[1],
             aliases |-> IF mod.aliases = None THEN <<>> ELSE mod.aliases[1]])

\* the list comprehensions of lines 43-46 and 49-52
ParseModificationList(raw) ==
    IF \E i \in 1..Len(raw) : ~ParseModification(raw[i]).ok
    THEN Fail("ValidationError")
    ELSE Ok([i \in 1..Len(raw) |-> ParseModification(raw[i]).value[1]])

\* MSNConstraint(**dict): type is required and must be a MSNConstraintType
ParseMSNConstraint(raw) ==
    IF raw.type = None \/ raw.type[1] \notin MSNConstraintType
    THEN Fail("ValidationError")
    ELSE Ok([type |-> raw.type[1], min_msn |-> raw.min_msn,
             max_msn |-> raw.max_msn, msn_list |-> raw.msn_list])

\* the body of the for loop of load_rules for one record, up to the
\* construction of the AirworthinessDirective
ParseRecord(ad_data) ==
    IF ad_data.applicability_rules = None THEN Fail("KeyError")
    ELSE
    LET rules == ad_data.applicability_rules[1]
        excl == IF rules.excluded_if_modifications = None THEN Ok(<<>>)
                ELSE ParseModificationList(rules.excluded_if_modifications[1])
        req == IF rules.required_modifications = None THEN Ok(<<>>)
               ELSE ParseModificationList(rules.required_modifications[1])
        msn == IF rules.msn_constraints = None THEN Ok(None)
               ELSE LET c == ParseMSNConstraint(rules.msn_constraints[1])
                    IN  IF c.ok THEN Ok(c.value) ELSE c
    IN  IF ~excl.ok THEN excl
        ELSE IF ~req.ok THEN req
        ELSE IF ~msn.ok THEN msn
        ELSE IF ad_data.ad_id = None \/ ad_data.issuing_authority = None
                \/ rules.aircraft_models = None
        THEN Fail("ValidationError")
        ELSE Ok([ad_id |-> ad_data.ad_id[1],
                 issuing_authority |-> ad_data.issuing_authority[1],
                 applicability_rules |->
                    [aircraft_models |-> rules.aircraft_models[1],
                     msn_constraints |-> msn.value[1],
                     excluded_if_modifications |-> excl.value[1],
                     required_modifications |-> req.value[1]]])

\* the for loop of load_rules: self.ads grows record by record, and the
\* first record that fails ends the call with what was appended so far
RECURSIVE load_rules_loop(_, _, _)
load_rules_loop(self_ads, rules_data, i) ==
    IF i > Len(rules_data) THEN [ads |-> self_ads, raised |-> ""]
    ELSE LET p == ParseRecord(rules_data[i])
         IN  IF p.ok
             THEN load_rules_loop(Append(self_ads, p.value[1]), rules_data, i + 1)
             ELSE [ads |-> self_ads, raised |-> p.error]

\* faulty variant: the call starts from an empty list, so it replaces what
\* was loaded before
load_rules_replace(self_ads, source) ==
    IF ~source.readable THEN [ads |-> self_ads, raised |-> "OSError"]
    ELSE load_rules_loop(<<>>, source.records, 1)

\* a source is a file: readable or not, and the records json.load gives
load_rules(self_ads, source) ==
    IF ~source.readable THEN [ads |-> self_ads, raised |-> "OSError"]
    ELSE load_rules_loop(self_ads, source.records, 1)

(***************************************************************************)
(* Inputs                                                                  *)
(***************************************************************************)
\* model designators: "A", "A-", "B"
ModelA == <<"A">>
ModelADash == <<"A", "-">>
ModelB == <<"B">>

\* modification texts on aircraft: "M1", " s2 ", "m1s2"
TextM1 == <<"M", "1">>
TextS2 == <<" ", "s", "2", " ">>
TextM1S2 == <<"m", "1", "s", "2">>

ModificationLists ==
    {<<>>, <<TextM1>>, <<TextS2>>, <<TextM1, TextS2>>, <<TextS2, TextM1>>, <<TextM1S2>>}

\* modification constraints: id "m1"; id "SB" with alias "S2"; id " s2"
ConM1 == [mod_id |-> <<"m", "1">>, aliases |-> <<>>]
ConSB == [mod_id |-> <<"S", "B">>, aliases |-> << <<"S", "2">> >>]
ConPadS2 == [mod_id |-> <<" ", "s", "2">>, aliases |-> <<>>]

ExcludedLists == {<<>>, <<ConM1>>, <<ConSB, ConM1>>, <<ConPadS2>>}
RequiredLists == {<<>>, <<ConM1>>, <<ConM1, ConSB>>, <<ConSB>>}

ModelLists == {<<>>, <<ModelA>>, <<ModelB, ModelA>>}

MSNs == 0..MaxMsn

OptBounds == {None} \cup {Some(n) : n \in 1..(MaxMsn - 1)}

MSNConstraints ==
    {[type |-> "all", min_msn |-> None, max_msn |-> None, msn_list |-> None]}
    \cup {[type |-> "range", min_msn |-> lo, max_msn |-> hi, msn_list |-> None] :
            lo \in OptBounds, hi \in OptBounds}
    \cup {[type |-> "list", min_msn |-> None, max_msn |-> None, msn_list |-> l] :
            l \in {None, Some(<<>>), Some(<<1>>), Some(<<0, MaxMsn>>)}}

\* the aircraft and the directives evaluate is applied to
Aircraft ==
    [aircraft_model : {ModelA, ModelB}, msn : MSNs, modifications : ModificationLists]

Directives ==
    [ad_id : {"AD0"}, issuing_authority : {"FAA"},
     applicability_rules :
        [aircraft_models : ModelLists,
         msn_constraints : {None} \cup {Some(c) : c \in MSNConstraints},
         excluded_if_modifications : ExcludedLists,
         required_modifications : RequiredLists]]

\* records of a rules file
RawRules(models, msn, excl, req) ==
    [aircraft_models |-> models, msn_constraints |-> msn,
     excluded_if_modifications |-> excl, required_modifications |-> req]

RawMod(c) == [mod_id |-> Some(c.mod_id), aliases |-> Some(c.aliases)]

RawAD1 ==
    [ad_id |-> Some("AD1"), issuing_authority |-> Some("FAA"),
     applicability_rules |-> Some(RawRules(Some(<<ModelA, ModelADash>>), None, None, None))]

RawAD2 ==
    [ad_id |-> Some("AD2"), issuing_authority |-> Some("EASA"),
     applicability_rules |->
        Some(RawRules(Some(<<ModelA>>),
                      Some([type |-> Some("range"), min_msn |-> Some(1),
                            max_msn |-> None, msn_list |-> None]),
                      Some(<<RawMod(ConSB)>>),
                      Some(<<[mod_id |-> Some(ConM1.mod_id), aliases |-> None]>>)))]

\* aircraft_models is missing
RawNoModels ==
    [ad_id |-> Some("AD3"), issuing_authority |-> Some("FAA"),
     applicability_rules |-> Some(RawRules(None, None, None, None))]

\* the serial constraint has a kind that is no MSNConstraintType
RawBadKind ==
    [ad_id |-> Some("AD4"), issuing_authority |-> Some("FAA"),
     applicability_rules |->
        Some(RawRules(Some(<<ModelA>>),
                      Some([type |-> Some("set"), min_msn |-> None,
                            max_msn |-> None, msn_list |-> None]),
                      None, None))]

\* applicability_rules is missing
RawNoRules ==
    [ad_id |-> Some("AD5"), issuing_authority |-> Some("FAA"),
     applicability_rules |-> None]

RawRecords == {RawAD1, RawAD2, RawNoModels, RawBadKind, RawNoRules}

SeqsUpTo(S, n) == UNION {[1..k -> S] : k \in 0..n}

Sources ==
    {[readable |-> TRUE, records |-> r] : r \in SeqsUpTo(RawRecords, MaxAds)}
    \cup {[readable |-> FALSE, records |-> <<>>]}

\* the rules file of the test script: two directives
DefaultSource == [readable |-> TRUE, records |-> <<RawAD1, RawAD2>>]

\* the directives a caller holds: evaluate takes a directive object, which
\* need not be one of self.ads
EngineDirectives == {ParseRecord(RawAD1).value[1], ParseRecord(RawAD2).value[1]}

\* aircraft given to the engine: two with the same model and serial number,
\* and two whose f-string key is the same text "A--1"
EngineAircraft ==
    {[aircraft_model |-> ModelA, msn |-> 1, modifications |-> <<>>],
     [aircraft_model |-> ModelA, msn |-> 1, modifications |-> <<TextM1>>],
     [aircraft_model |-> ModelA, msn |-> 0 - 1, modifications |-> <<>>],
     [aircraft_model |-> ModelADash, msn |-> 1, modifications |-> <<>>]}

Fleets == SeqsUpTo(EngineAircraft, MaxFleet)

(***************************************************************************)
(* State                                                                   *)
(***************************************************************************)
NoArgs == [aircraft |-> None, ad |-> None, fleet |-> <<>>, source |-> None]

NoRet == [result |-> None, results |-> <<>>, fleet_results |-> EmptyDict, raised |-> ""]

EvalOps == {"evaluate", "evaluate_all", "evaluate_fleet"}

\* first: the first call of evaluate (its inputs and its result), and whether
\* evaluate_all or evaluate_fleet was called after it
NoteCall(name) ==
    IF first = None THEN first
    ELSE Some([first[1] EXCEPT !.between = @ \/ name \in {"evaluate_all", "evaluate_fleet"}])

\* __init__: self.ads = [] and load_rules(path); the engine exists only when
\* the call did not raise
Init ==
    /\ \E source \in Sources :
          LET r == load_rules(<<>>, source)
          IN  /\ r.raised = ""
              /\ ads = r.ads
              /\ args = [NoArgs EXCEPT !.source = Some(source)]
    /\ op = "init"
    /\ ret = NoRet
    /\ first = None

LoadRules(source) ==
    /\ Len(ads) + Len(source.records) <= MaxAds
    /\ op' = "load_rules"
    /\ args' = [NoArgs EXCEPT !.source = Some(source)]
    /\ LET r == load_rules(ads, source)
       IN  /\ ads' = r.ads
           /\ ret' = [NoRet EXCEPT !.raised = r.raised]
    /\ first' = NoteCall("load_rules")

\* faulty variant: the directive is looked up in self.ads and an unknown one
\* is refused
Evaluate_lookup(aircraft, ad) ==
    /\ op' = "evaluate"
    /\ args' = [NoArgs EXCEPT !.aircraft = Some(aircraft), !.ad = Some(ad)]
    /\ ret' = IF \E i \in 1..Len(ads) : ads[i] = ad
              THEN [NoRet EXCEPT !.result = Some(evaluate(aircraft, ad))]
              ELSE [NoRet EXCEPT !.raised = "NotFoundError"]
    /\ first' = IF first = None /\ (\E i \in 1..Len(ads) : ads[i] = ad)
                THEN Some([aircraft |-> aircraft, ad |-> ad,
                           result |-> evaluate(aircraft, ad), between |-> FALSE])
                ELSE first
    /\ UNCHANGED ads

\* faulty variant: the reasons list is shared between calls, so a call that
\* follows another evaluate starts from the earlier trail
Evaluate_shared_reasons(aircraft, ad) ==
    LET earlier == IF ret.result = None THEN <<>> ELSE ret.result[1].reason
        result == [evaluate(aircraft, ad) EXCEPT !.reason = earlier \o @]
    IN  /\ op' = "evaluate"
        /\ args' = [NoArgs EXCEPT !.aircraft = Some(aircraft), !.ad = Some(ad)]
        /\ ret' = [NoRet EXCEPT !.result = Some(result)]
        /\ first' = IF first = None
                    THEN Some([aircraft |-> aircraft, ad |-> ad,
                               result |-> result, between |-> FALSE])
                    ELSE first
        /\ UNCHANGED ads

Evaluate(aircraft, ad) ==
    /\ op' = "evaluate"
    /\ args' = [NoArgs EXCEPT !.aircraft = Some(aircraft), !.ad = Some(ad)]
    /\ ret' = [NoRet EXCEPT !.result = Some(evaluate(aircraft, ad))]
    /\ first' = IF first = None
                THEN Some([aircraft |-> aircraft, ad |-> ad,
                           result |-> evaluate(aircraft, ad), between |-> FALSE])
                ELSE first
    /\ UNCHANGED ads

EvaluateAll(aircraft) ==
    /\ op' = "evaluate_all"
    /\ args' = [NoArgs EXCEPT !.aircraft = Some(aircraft)]
    /\ ret' = [NoRet EXCEPT !.results = evaluate_all(aircraft)]
    /\ first' = NoteCall("evaluate_all")
    /\ UNCHANGED ads

EvaluateFleet(fleet) ==
    /\ op' = "evaluate_fleet"
    /\ args' = [NoArgs EXCEPT !.fleet = fleet]
    /\ ret' = [NoRet EXCEPT !.fleet_results = evaluate_fleet(fleet)]
    /\ first' = NoteCall("evaluate_fleet")
    /\ UNCHANGED ads

Next ==
    \/ \E source \in Sources : LoadRules(source)
    \/ \E aircraft \in EngineAircraft, ad \in EngineDirectives : Evaluate(aircraft, ad)
    \/ \E aircraft \in EngineAircraft : EvaluateAll(aircraft)
    \/ \E fleet \in Fleets : EvaluateFleet(fleet)

Spec == Init /\ [][Next]_vars

(***************************************************************************)
(* evaluate as a function of its two arguments: every aircraft of Aircraft *)
(* against every directive of Directives, on the engine the test script    *)
(* builds.                                                                 *)
(***************************************************************************)
InitEval ==
    /\ ads = load_rules(<<>>, DefaultSource).ads
    /\ op = "input"
    /\ \E aircraft \in Aircraft, ad \in Directives :
          args = [NoArgs EXCEPT !.aircraft = Some(aircraft), !.ad = Some(ad)]
    /\ ret = NoRet
    /\ first = None

EvaluateInput == op = "input" /\ Evaluate(args.aircraft[1], args.ad[1])

NextEval == EvaluateInput

SpecEval == InitEval /\ [][NextEval]_vars

(***************************************************************************)
(* Properties of evaluate (checked under SpecEval)                         *)
(***************************************************************************)
Evaluated == op = "evaluate" /\ ret.result # None

TheAircraft == args.aircraft[1]
TheAD == args.ad[1]
TheRules == TheAD.applicability_rules
TheResult == ret.result[1]

Statuses == {"yes", "no", "not applicable"}

ModelListed ==
    \E i \in 1..Len(TheRules.aircraft_models) :
        TheRules.aircraft_models[i] = TheAircraft.aircraft_model

\* the serial constraint as section 4.1 of the specification reads it
SerialAdmits(c, serial) ==
    CASE c.type = "all" -> TRUE
      [] c.type = "range" ->
            /\ (c.min_msn = None \/ serial >= c.min_msn[1])
            /\ (c.max_msn = None \/ serial <= c.max_msn[1])
      [] c.type = "list" ->
            /\ c.msn_list # None
            /\ serial \in {c.msn_list[1][i] : i \in 1..Len(c.msn_list[1])}

SerialPasses ==
    TheRules.msn_constraints = None
    \/ MSNConstraint_matches(TheRules.msn_constraints[1], TheAircraft.msn)

SomeMatch(cons) ==
    \E i \in 1..Len(cons) : \E j \in 1..Len(TheAircraft.modifications) :
        ModificationConstraint_matches(cons[i], TheAircraft.modifications[j])

Labels == {TheResult.reason[i].label : i \in 1..Len(TheResult.reason)}

\* C1: evaluate returns, for every aircraft and directive, one result whose
\* status is "yes", "no" or "not applicable" and whose is_affected flag is
\* true exactly when the status is "yes"; it never raises.
C1_OneResult ==
    op = "evaluate" =>
        /\ ret.raised = ""
        /\ Len(ret.result) = 1
        /\ TheResult.status \in Statuses
        /\ TheResult.is_affected = (TheResult.status = "yes")

\* an aircraft in scope that lacks the required modification: "no", not affected
C1_Witness ==
    /\ Evaluated
    /\ TheResult.status = "no"
    /\ ~TheResult.is_affected
    /\ Len(TheResult.reason) = 4

\* C2: the status is "yes" exactly when the model is listed, the serial
\* constraint is absent or matches, no excluded constraint matches any
\* modification, and the required list is empty or one of its constraints
\* matches a modification; with no modifications and a non-empty required
\* list an aircraft in scope gets "no".
C2_YesIffAllFour ==
    op = "evaluate" =>
        /\ (TheResult.status = "yes" /\ TheResult.is_affected)
           <=> /\ ModelListed
               /\ SerialPasses
               /\ ~SomeMatch(TheRules.excluded_if_modifications)
               /\ \/ TheRules.required_modifications = <<>>
                  \/ SomeMatch(TheRules.required_modifications)
        /\ (/\ ModelListed
            /\ SerialPasses
            /\ TheAircraft.modifications = <<>>
            /\ TheRules.required_modifications # <<>>)
           => TheResult.status = "no"

\* "yes" through the second of two required constraints, with an excluded
\* list that does not match
C2_Witness ==
    /\ Evaluated
    /\ TheResult.status = "yes"
    /\ Len(TheRules.required_modifications) = 2
    /\ ~ModificationConstraint_matches(TheRules.required_modifications[1],
                                       TheAircraft.modifications[1])
    /\ TheRules.excluded_if_modifications # <<>>
    /\ TheRules.msn_constraints # None

\* C3: a model that is not listed gives "not applicable" and not affected,
\* whatever the serial number, the modifications and the other rules are.
C3_ModelMismatch ==
    op = "evaluate" /\ ~ModelListed =>
        TheResult.status = "not applicable" /\ ~TheResult.is_affected

\* the model is not listed although every other check would pass
C3_Witness ==
    /\ Evaluated
    /\ ~ModelListed
    /\ TheRules.aircraft_models = <<>>
    /\ TheRules.msn_constraints # None
    /\ SerialPasses
    /\ ~SomeMatch(TheRules.excluded_if_modifications)
    /\ SomeMatch(TheRules.required_modifications)
    /\ TheResult.status = "not applicable"

\* C4: with the model listed, the status is "not applicable" exactly when
\* there is a serial constraint that does not admit the serial number: ALL
\* admits all, RANGE admits min <= serial <= max with an absent bound open,
\* LIST admits the members of the list (none when empty or absent).
C4_SerialCheck ==
    op = "evaluate" /\ ModelListed =>
        (TheResult.status = "not applicable"
         <=> /\ TheRules.msn_constraints # None
             /\ ~SerialAdmits(TheRules.msn_constraints[1], TheAircraft.msn))

\* a serial number equal to the lower bound of a two-sided range passes
C4_Witness ==
    /\ Evaluated
    /\ ModelListed
    /\ TheRules.msn_constraints # None
    /\ TheRules.msn_constraints[1].type = "range"
    /\ TheRules.msn_constraints[1].min_msn = Some(TheAircraft.msn)
    /\ TheRules.msn_constraints[1].max_msn # None
    /\ TheResult.status # "not applicable"

\* C5: an aircraft that passes the model and serial checks and has a
\* modification that an excluded constraint matches gets "no", also when a
\* required constraint matches, and the trail has no "Required mods check".
C5_ExclusionDominates ==
    (/\ op = "evaluate"
     /\ ModelListed
     /\ SerialPasses
     /\ SomeMatch(TheRules.excluded_if_modifications))
    => /\ TheResult.status = "no"
       /\ ~TheResult.is_affected
       /\ "Required mods check" \notin Labels

\* excluded by the second excluded constraint while a required one matches
C5_Witness ==
    /\ Evaluated
    /\ ModelListed
    /\ SerialPasses
    /\ Len(TheRules.excluded_if_modifications) = 2
    /\ ~SomeMatch(<<TheRules.excluded_if_modifications[1]>>)
    /\ SomeMatch(TheRules.excluded_if_modifications)
    /\ SomeMatch(TheRules.required_modifications)
    /\ TheResult.status = "no"

(***************************************************************************)
(* Properties of the engine (checked under Spec)                           *)
(***************************************************************************)
FleetIds == {aircraft_id(args.fleet[i]) : i \in 1..Len(args.fleet)}

\* the last aircraft of the fleet whose key is k
LastWith(k) ==
    CHOOSE i \in 1..Len(args.fleet) :
        /\ aircraft_id(args.fleet[i]) = k
        /\ \A j \in 1..Len(args.fleet) : aircraft_id(args.fleet[j]) = k => j <= i

InLoadOrder(results) ==
    /\ Len(results) = Len(ads)
    /\ \A j \in 1..Len(ads) : results[j].ad_id = ads[j].ad_id

\* C6 as claimed: a fleet of N aircraft gives N keys, each with one result
\* per loaded directive in load order, whatever the list is.
C6_NKeys ==
    op = "evaluate_fleet" =>
        /\ Cardinality(DOMAIN ret.fleet_results) = Len(args.fleet)
        /\ \A k \in DOMAIN ret.fleet_results : InLoadOrder(ret.fleet_results[k])

\* C6 as amended: the keys are the distinct texts "<model>-<msn>" of the
\* list, so there are N of them exactly when these texts are pairwise
\* distinct; each key holds one result per loaded directive in load order,
\* those of the last aircraft of the list with that text.
C6_DistinctKeys ==
    op = "evaluate_fleet" =>
        /\ DOMAIN ret.fleet_results = FleetIds
        /\ (Cardinality(DOMAIN ret.fleet_results) = Len(args.fleet))
           <=> (\A i, j \in 1..Len(args.fleet) :
                   aircraft_id(args.fleet[i]) = aircraft_id(args.fleet[j]) => i = j)
        /\ \A k \in DOMAIN ret.fleet_results :
              /\ InLoadOrder(ret.fleet_results[k])
              /\ \A j \in 1..Len(ads) :
                    /\ ret.fleet_results[k][j].aircraft_model
                          = args.fleet[LastWith(k)].aircraft_model
                    /\ ret.fleet_results[k][j].msn = args.fleet[LastWith(k)].msn
                    /\ ret.fleet_results[k][j].status
                          = evaluate(args.fleet[LastWith(k)], ads[j]).status

\* two aircraft with the same model and serial number and different
\* modifications, two directives loaded: one key, with the results of the
\* second aircraft
C6_Witness ==
    /\ op = "evaluate_fleet"
    /\ Len(args.fleet) = 2
    /\ Len(ads) = 2
    /\ args.fleet[1].aircraft_model = args.fleet[2].aircraft_model
    /\ args.fleet[1].msn = args.fleet[2].msn
    /\ evaluate(args.fleet[1], ads[2]).status # evaluate(args.fleet[2], ads[2]).status
    /\ Cardinality(DOMAIN ret.fleet_results) = 1

\* C7: evaluate_all gives one result per directive of self.ads, in load
\* order: result i carries the ad_id of directive i and the model and serial
\* number of the aircraft, and is what evaluate gives for that pair.
C7_OnePerDirective ==
    op = "evaluate_all" =>
        /\ Len(ret.results) = Len(ads)
        /\ \A i \in 1..Len(ads) :
              /\ ret.results[i].ad_id = ads[i].ad_id
              /\ ret.results[i].aircraft_model = TheAircraft.aircraft_model
              /\ ret.results[i].msn = TheAircraft.msn
              /\ ret.results[i] = evaluate(TheAircraft, ads[i])

\* two different directives loaded, with different verdicts for the aircraft
C7_Witness ==
    /\ op = "evaluate_all"
    /\ Len(ads) = 2
    /\ Len(ret.results) = 2
    /\ ads[1].ad_id # ads[2].ad_id
    /\ ret.results[1].status # ret.results[2].status

\* C8 as claimed: a load_rules call that fails leaves self.ads as it was
\* before the call.
C8_FailClosed ==
    [][(op' = "load_rules" /\ ret'.raised # "") => ads' = ads]_vars

\* C9 as claimed: evaluate for a directive that is not in self.ads gives
\* NotFoundError and no result.
C9_NotFound ==
    (op = "evaluate" /\ ~(\E i \in 1..Len(ads) : ads[i] = TheAD))
    => (ret.raised = "NotFoundError" /\ ret.result = None)

\* C9 as amended: evaluate takes the directive itself, not an identifier,
\* and does not look it up: it returns the result of the four checks for
\* that directive, loaded or not, and never a NotFoundError.
C9_NoLookup ==
    op = "evaluate" =>
        /\ ret.raised = ""
        /\ Len(ret.result) = 1
        /\ TheResult.ad_id = TheAD.ad_id
        /\ TheResult.aircraft_model = TheAircraft.aircraft_model
        /\ TheResult.msn = TheAircraft.msn

\* a directive that is not in self.ads is evaluated to "yes"
C9_Witness ==
    /\ Evaluated
    /\ ads # <<>>
    /\ ~(\E i \in 1..Len(ads) : ads[i] = TheAD)
    /\ ret.raised = ""
    /\ TheResult.status = "yes"

Stages == <<"Model check", "MSN check", "Excluded mods check", "Required mods check">>

\* the number of stages the four-stage sequence runs for the inputs: it
\* stops at the first of model mismatch, serial mismatch and exclusion
StagesRun ==
    IF ~ModelListed THEN 1
    ELSE IF ~SerialPasses THEN 2
    ELSE IF SomeMatch(TheRules.excluded_if_modifications) THEN 3
    ELSE 4

\* C11: the trail has one labelled entry for each stage that ran, in the
\* order Model, MSN, Excluded mods, Required mods, and none for a stage after
\* the short-circuit: 1 entry on a model mismatch, 2 on a serial mismatch, 3
\* on an exclusion, 4 otherwise; so "not applicable" has at most 2 entries
\* and "yes" has exactly 4.
C11_TrailIsPrefix ==
    op = "evaluate" =>
        /\ Len(TheResult.reason) = StagesRun
        /\ \A i \in 1..Len(TheResult.reason) : TheResult.reason[i].label = Stages[i]
        /\ TheResult.status = "not applicable" => Len(TheResult.reason) <= 2
        /\ TheResult.status = "yes" => Len(TheResult.reason) = 4

\* an excluded aircraft: three entries, the last one of the exclusion check
C11_Witness ==
    /\ Evaluated
    /\ ModelListed
    /\ TheRules.msn_constraints # None
    /\ SomeMatch(TheRules.excluded_if_modifications)
    /\ Len(TheResult.reason) = 3
    /\ TheResult.reason[3].label = "Excluded mods check"

(***************************************************************************)
(* ModificationConstraint.matches as a function of the constraint and the  *)
(* text: every constraint of MatchConstraints against every text of        *)
(* MatchTexts.                                                             *)
(***************************************************************************)
MaxAliases == 2

\* ids and aliases: "m1", "M1", " s2", "s2 ", "SB", ""
MatchIds ==
    {<<"m", "1">>, <<"M", "1">>, <<" ", "s", "2">>, <<"s", "2", " ">>, <<"S", "B">>, <<>>}

MatchAliases == {<<"S", "2">>, <<"s", "2", " ">>, <<"1", "s">>}

MatchConstraints ==
    [mod_id : MatchIds, aliases : SeqsUpTo(MatchAliases, MaxAliases)]

\* texts: "M1", " s2 ", "m1s2", "s2 ", "sb 1", ""
MatchTexts ==
    {TextM1, TextS2, TextM1S2, <<"s", "2", " ">>, <<"s", "b", " ", "1">>, <<>>}

InitMatch ==
    /\ ads = load_rules(<<>>, DefaultSource).ads
    /\ op = "input"
    /\ \E c \in MatchConstraints, text \in MatchTexts :
          args = [constraint |-> c, modification |-> text]
    /\ ret = NoRet
    /\ first = None

Matches ==
    /\ op = "input"
    /\ op' = "matches"
    /\ ret' = [matches |->
                  ModificationConstraint_matches(args.constraint, args.modification)]
    /\ UNCHANGED <<ads, args, first>>

NextMatch == Matches

SpecMatch == InitMatch /\ [][NextMatch]_vars

\* the normal form of section 4.1 of the specification: trimmed and
\* case-folded
Normalized(s) == strip(lower(s))

\* C12 as claimed: matches is true exactly when the trimmed, case-folded id
\* or some trimmed, case-folded alias is a contiguous part of the trimmed,
\* case-folded text, also for ids and aliases with surrounding whitespace or
\* in another letter case.
C12_NormalizedContainment ==
    op = "matches" =>
        (ret.matches
         <=> \/ contains(Normalized(args.constraint.mod_id),
                         Normalized(args.modification))
             \/ \E i \in 1..Len(args.constraint.aliases) :
                   contains(Normalized(args.constraint.aliases[i]),
                            Normalized(args.modification)))

(***************************************************************************)
(* Loading (checked under Spec)                                            *)
(***************************************************************************)
\* the directives of the records of a source all of whose records are valid
Loaded(source) ==
    [i \in 1..Len(source.records) |-> ParseRecord(source.records[i]).value[1]]

\* C13: load_rules appends and never replaces.  The constructor leaves the
\* directives of its source, in source order; every later successful call
\* leaves the collection it found followed by the directives of its source,
\* in source order, also when their ad_id is already there; so evaluate_all
\* then gives the results it gave before followed by one result for each
\* directive of the source.
C13_Appends ==
    /\ op = "init" => ads = Loaded(args.source[1])
    /\ [][(op' = "load_rules" /\ ret'.raised = "")
          => /\ ads' = ads \o Loaded(args'.source[1])
             /\ \A aircraft \in EngineAircraft :
                   LET before == evaluate_all(aircraft)
                       after == evaluate_all(aircraft)'
                       new == Loaded(args'.source[1])
                   IN  after = before \o [i \in 1..Len(new) |-> evaluate(aircraft, new[i])]]_vars

\* the source the engine was built from is loaded a second time: the
\* collection holds its directive twice
C13_Witness ==
    /\ op = "load_rules"
    /\ ret.raised = ""
    /\ Len(args.source[1].records) = 1
    /\ Len(ads) = 2
    /\ ads[1] = ads[2]
    /\ ads[1].ad_id = ads[2].ad_id
    /\ Len(evaluate_all(CHOOSE aircraft \in EngineAircraft : TRUE)) = 2

====
